---- MODULE Spec2Model ----
(***************************************************************************)
(* A model of worker.js: a Cloudflare Worker that turns files sent to a    *)
(* Telegram bot into download links.  The Link Store (LINKS_KV) is the     *)
(* only durable state; every handler is modelled between its awaits on     *)
(* the store, so that concurrent requests interleave where they can in     *)
(* the worker.                                                             *)
(*                                                                         *)
(* JavaScript values that may be undefined are sequences of length at most *)
(* one: <<>> is undefined (or null), <<v>> is the value v.  Strings that   *)
(* the code splits, concatenates or matches by prefix (paths, keys,        *)
(* command texts) are sequences of one-character strings.                  *)
(***************************************************************************)
EXTENDS Integers, Sequences, FiniteSets, Bags, TLC

VARIABLES
    kv,        \* LINKS_KV: a function from key to the stored JSON value
    issued,    \* history: every key ever written by LINKS_KV.put
    inflight,  \* bag of requests suspended at an await between two store operations
    last,      \* what the most recent handler step did (its response and calls)
    arg,       \* argument of the pure function applied in SpecMember and SpecExtract
    ret        \* its result, <<>> before it is applied

vars == <<kv, issued, inflight, last, arg, ret>>

\* ---------------------------------------------------------------- bounds

\* number of values crypto.randomUUID returns
MaxTokens == 2
\* number of requests that may be suspended at the same time
MaxInFlight == 2

\* ------------------------------------------------------------- constants

MAX_FILE_SIZE == 20 * 1024 * 1024

\* ------------------------------------------------------ JavaScript values

Absent == <<>>
Some(x) == <<x>>

\* !x for a number or undefined
FalsyNum(o) == o = Absent \/ o = <<0>>
\* FalsyStr with the empty string taken for a value
FalsyStr_OnlyUndefined(o) == o = Absent

\* !x for a string (a sequence of characters) or undefined
FalsyStr(o) == o = Absent \/ o = <<<<>>>>
\* !x for a file name or file id kept as an atom
FalsyName(o) == o = Absent \/ o = <<"">>
\* truthiness of a boolean or undefined
Truthy(o) == o = <<TRUE>>

DecDigits == <<"0", "1", "2", "3", "4", "5", "6", "7", "8", "9">>
HexDigits == <<"a", "b", "c", "d", "e", "f">>

\* `${n}` for a non-negative integer
RECURSIVE NumberToString(_)
NumberToString(n) ==
    IF n < 10 THEN <<DecDigits[n + 1]>>
    ELSE NumberToString(n \div 10) \o <<DecDigits[(n % 10) + 1]>>

\* String.prototype.split for a one-character separator
RECURSIVE Split(_, _)
Split(s, sep) ==
    IF \A i \in 1..Len(s) : s[i] # sep THEN <<s>>
    ELSE LET i == CHOOSE j \in 1..Len(s) :
                      s[j] = sep /\ \A k \in 1..(j - 1) : s[k] # sep
         IN <<SubSeq(s, 1, i - 1)>> \o Split(SubSeq(s, i + 1, Len(s)), sep)

\* a[i] with JavaScript's zero-based index: undefined past the end
At(a, i) == IF i >= 0 /\ i + 1 <= Len(a) THEN Some(a[i + 1]) ELSE Absent

\* String.prototype.startsWith
StartsWith(s, p) == Len(s) >= Len(p) /\ SubSeq(s, 1, Len(p)) = p

\* JSON.stringify of an object: undefined properties are left out
JSONstringify(o) ==
    LET present == {f \in DOMAIN o : o[f] # Absent}
    IN [f \in present |-> o[f][1]]

\* JSON.parse, then reading meta.fileId, meta.fileName, meta.fileSize
JSONparse(s) ==
    [f \in {"fileId", "fileName", "fileSize"} |->
        IF f \in DOMAIN s THEN Some(s[f]) ELSE Absent]

\* (x / 1024 / 1024).toFixed(2) in hundredths; <<>> is "NaN"
ToFixed2MB(size) ==
    IF size = Absent THEN Absent
    ELSE Some((size[1] * 100 + 524288) \div 1048576)

\* ------------------------------------------------------------ Link Store

\* the key `user:${userId}:${token}`
LinkKey(userId, token) == <<"u", "s", "e", "r", ":">> \o userId \o <<":">> \o token

\* UserPrefix without the colon that ends the user id
UserPrefix_NoColon(userId) == <<"u", "s", "e", "r", ":">> \o userId

\* the prefix `user:${userId}:` of the keys of one user
UserPrefix(userId) == <<"u", "s", "e", "r", ":">> \o userId \o <<":">>

\* LinkPath with the user id and the token in each other's place
LinkPath_Swapped(userId, token) ==
    <<"/", "f", "i", "l", "e", "/">> \o token \o <<"/">> \o userId

\* the path of the link `${WORKER_DOMAIN}/file/${userId}/${token}`
LinkPath(userId, token) == <<"/", "f", "i", "l", "e", "/">> \o userId \o <<"/">> \o token

\* key.name.split(':')[2]
KeyToken(key) == At(Split(key, ":"), 2)

\* LINKS_KV.get: the value, or null
KvGet(key) == IF key \in DOMAIN kv THEN Some(kv[key]) ELSE Absent

\* LINKS_KV.put: an unconditional upsert
KvPut(key, value) == [k \in DOMAIN kv \cup {key} |-> IF k = key THEN value ELSE kv[k]]

\* KvDelete that removes nothing
KvDelete_Noop(key) == kv

\* KvDelete that removes every key of the user of the key
KvDelete_WholeUser(key) ==
    [k \in {x \in DOMAIN kv : Split(x, ":")[2] # Split(key, ":")[2]} |-> kv[k]]

\* LINKS_KV.delete: removes the key, a no-op when it is absent
KvDelete(key) == [k \in DOMAIN kv \ {key} |-> kv[k]]

\* the code points of the characters keys are made of, in increasing order
CharOrder ==
    <<"0", "1", "2", "3", "4", "5", "6", "7", "8", "9", ":",
      "a", "b", "c", "d", "e", "f", "r", "s", "u">>
CharRank(c) == CHOOSE i \in 1..Len(CharOrder) : CharOrder[i] = c

RECURSIVE KeyLeq(_, _)
KeyLeq(a, b) ==
    IF a = <<>> THEN TRUE
    ELSE IF b = <<>> THEN FALSE
    ELSE IF a[1] # b[1] THEN CharRank(a[1]) < CharRank(b[1])
    ELSE KeyLeq(Tail(a), Tail(b))

RECURSIVE SortKeys(_)
SortKeys(S) ==
    IF S = {} THEN <<>>
    ELSE LET m == CHOOSE x \in S : \A y \in S : KeyLeq(x, y)
         IN <<m>> \o SortKeys(S \ {m})

\* LINKS_KV.list({ prefix }): the names of the keys that start with the prefix,
\* in the store's (lexicographic) order
KvList(prefix) == SortKeys({k \in DOMAIN kv : StartsWith(k, prefix)})

\* crypto.randomUUID(): the n-th value it returns, a string with no ':' or
\* '/'; the values it returns are taken to be distinct (the code does not
\* handle a collision)
UUID(n) ==
    IF n <= Len(HexDigits) THEN <<HexDigits[n]>>
    ELSE <<HexDigits[((n - 1) % Len(HexDigits)) + 1]>> \o NumberToString(n)

\* -------------------------------------------------------- pure functions

\* ExceedsMaxFileSize with >= for >
ExceedsMaxFileSize_Inclusive(fileSize) ==
    fileSize # Absent /\ fileSize[1] >= MAX_FILE_SIZE

\* fileSize > MAX_FILE_SIZE; a comparison with undefined is false
ExceedsMaxFileSize(fileSize) == fileSize # Absent /\ fileSize[1] > MAX_FILE_SIZE

\* extractFileInfo(message)
extractFileInfo(message) ==
    LET file ==
            IF message.document # Absent THEN message.document
            ELSE IF message.video # Absent THEN message.video
            ELSE IF message.audio # Absent THEN message.audio
            ELSE IF message.photo # Absent
                 THEN At(message.photo[1], Len(message.photo[1]) - 1)
                 ELSE Absent
    IN IF file = Absent
       THEN [fileId |-> Absent, fileName |-> Absent, fileSize |-> Absent]
       ELSE [fileId |-> Some(file[1].file_id),
             fileName |->
                 IF ~FalsyName(file[1].file_name) THEN file[1].file_name
                 ELSE IF message.video # Absent THEN Some("video.mp4")
                 ELSE IF message.audio # Absent THEN Some("audio.mp3")
                 ELSE Some("photo.jpg"),
             fileSize |-> file[1].file_size]

\* MEMBER_STATUSES with the statuses of a user who is still listed
MEMBER_STATUSES_Listed == {"member", "creator", "administrator", "restricted"}

\* the statuses isUserMember accepts
MEMBER_STATUSES == {"member", "creator", "administrator"}

\* isUserMember(userId), given what getChatMember answered: true, false or
\* undefined (data.ok when it is missing).  An exception of the fetch or of
\* response.json(), and the TypeError of data.result.status when the result
\* is missing, are caught and give false
isUserMember(answer) ==
    IF answer.throws THEN Some(FALSE)
    ELSE IF ~Truthy(answer.ok) THEN answer.ok
    ELSE IF answer.result = Absent THEN Some(FALSE)
    ELSE Some(answer.result[1].status # Absent
              /\ answer.result[1].status[1] \in MEMBER_STATUSES)

\* getTelegramFileLink(fileId), given what getFile answered: the url or null
getTelegramFileLink(fileId, answer) ==
    IF answer.throws THEN Absent
    ELSE IF ~Truthy(answer.ok) THEN Absent
    ELSE IF answer.result = Absent THEN Absent
    ELSE Some([file_id |-> fileId, file_path |-> answer.result[1].file_path])

\* `${x}` for a string that may be undefined
TemplateStr(o) ==
    IF o = Absent THEN <<"u", "n", "d", "e", "f", "i", "n", "e", "d">> ELSE o[1]

\* ----------------------------------------------------------------- inputs

UserIds == {1, 12}

CmdStart == <<"/", "s", "t", "a", "r", "t">>
CmdLinks == <<"/", "l", "i", "n", "k", "s">>

\* message.text: absent, the two commands, a longer text that starts with
\* /links, and a text that is no command
Texts ==
    {Absent, Some(CmdStart), Some(CmdLinks), Some(CmdLinks \o <<"@", "b">>),
     Some(<<"h", "i">>)}

Attachment(id, name, size) == [file_id |-> id, file_name |-> name, file_size |-> size]

NoMedia == [document |-> Absent, video |-> Absent, audio |-> Absent, photo |-> Absent]

\* the media a message to the bot carries: nothing, a named document at the
\* ceiling or one byte over it, a video with no name and no size, an empty
\* photo array
Media ==
    {NoMedia,
     [NoMedia EXCEPT !.document =
         Some(Attachment("abc", Some("report.pdf"), Some(MAX_FILE_SIZE)))],
     [NoMedia EXCEPT !.document =
         Some(Attachment("abc", Some("report.pdf"), Some(MAX_FILE_SIZE + 1)))],
     [NoMedia EXCEPT !.video = Some(Attachment("vid", Absent, Absent))],
     [NoMedia EXCEPT !.photo = Some(<<>>)]}

Message(chat, from, text, media) ==
    [chat |-> chat, from |-> from, text |-> text,
     document |-> media.document, video |-> media.video,
     audio |-> media.audio, photo |-> media.photo]

Update(u, text, media) ==
    Some([message |-> Some(Message(Some(u), Some(u), text, media))])

\* an input of handleTelegramWebhook: the request, what getChatMember answers
\* and whether the fetch of sendMessage resolves
WebhookInput(method, body, answer, delivery) ==
    [path |-> <<"/", "w", "e", "b", "h", "o", "o", "k">>, method |-> method,
     body |-> body, answer |-> answer, delivery |-> delivery]

ChatMember(status) ==
    [throws |-> FALSE, ok |-> Some(TRUE), result |-> Some([status |-> status])]
NoAnswer == [throws |-> TRUE, ok |-> Absent, result |-> Absent]

\* what getChatMember can answer: a network or JSON exception, ok missing or
\* false, ok with no result, ok with a result with or without a status
ApiStatuses ==
    {"creator", "administrator", "member", "restricted", "left", "kicked", ""}
MemberAnswers ==
    {NoAnswer}
    \cup {[throws |-> FALSE, ok |-> o, result |-> r] :
             o \in {Absent, Some(FALSE), Some(TRUE)},
             r \in {Absent, Some([status |-> Absent])}
                   \cup {Some([status |-> Some(st)]) : st \in ApiStatuses}}

\* the contents of a message of a user in their own chat
Contents ==
    {<<t, NoMedia>> : t \in Texts \ {Absent}}
    \cup {<<Absent, m>> : m \in Media \ {NoMedia}}

\* the requests to /webhook that write or list the store: the same document
\* from either user as a member, and /links from user 1
StoreInputs ==
    {WebhookInput("POST",
         Update(u, Absent,
                [NoMedia EXCEPT !.document =
                    Some(Attachment("abc", Some("report.pdf"), Some(MAX_FILE_SIZE)))]),
         ChatMember(Some("member")), "resolved") : u \in UserIds}
    \cup {WebhookInput("POST", Update(1, Some(CmdLinks), NoMedia),
                       ChatMember(Some("member")), "resolved")}

\* the requests to /webhook: a GET; bodies that are not JSON, have no message,
\* no chat id or no sender id; every content from a member, from a user who
\* left, from one whose check throws and from one whose answer has no ok; and
\* a sendMessage fetch that rejects
WebhookInputs ==
    {WebhookInput("GET", Absent, NoAnswer, "resolved"),
     WebhookInput("POST", Absent, NoAnswer, "resolved"),
     WebhookInput("POST", Some([message |-> Absent]), NoAnswer, "resolved"),
     WebhookInput("POST",
         Some([message |-> Some(Message(Absent, Some(1), Some(CmdStart), NoMedia))]),
         NoAnswer, "resolved"),
     WebhookInput("POST",
         Some([message |-> Some(Message(Some(1), Absent, Some(CmdStart), NoMedia))]),
         NoAnswer, "resolved")}
    \cup StoreInputs
    \cup {WebhookInput("POST", Update(1, c[1], c[2]), ChatMember(Some("member")), "resolved") :
             c \in Contents}
    \cup {WebhookInput("POST", Update(1, c[1], c[2]), a, "resolved") :
             c \in Contents,
             a \in {ChatMember(Some("left")), NoAnswer,
                    [throws |-> FALSE, ok |-> Absent, result |-> Absent]}}
    \cup {WebhookInput("POST", Update(1, c[1], c[2]), a, "rejected") :
             c \in Contents, a \in {ChatMember(Some("member")), ChatMember(Some("left"))}}

\* whether the fetch of sendMessage resolves (with any answer of the API,
\* which the code does not read) or rejects
Deliveries == {"resolved", "rejected"}

FileAnswer(ok, result) == [throws |-> FALSE, ok |-> ok, result |-> result]

\* what getFile answers and what the fetch of the resolved url does (a status,
\* or <<>> when it rejects): an exception, ok false, ok with no result, and ok
\* with a path
FileOutcomes ==
    {[answer |-> NoAnswer, upstream |-> Absent],
     [answer |-> FileAnswer(Some(FALSE), Absent), upstream |-> Absent],
     [answer |-> FileAnswer(Some(TRUE), Absent), upstream |-> Absent]}
    \cup {[answer |-> FileAnswer(Some(TRUE), Some([file_path |-> "doc/f"])),
           upstream |-> up] : up \in {Some(200), Some(404), Absent}}

PathFile == <<"/", "f", "i", "l", "e">>

\* the paths of the requests to /file: every link of a user and a token, a
\* link with an empty user id, one with an empty token, and paths with
\* fewer parts
FilePaths ==
    {PathFile, PathFile \o <<"/", "1">>, LinkPath(<<>>, UUID(1)), LinkPath(<<"1">>, <<>>)}
    \cup {LinkPath(NumberToString(u), UUID(n)) : u \in UserIds, n \in 1..MaxTokens}

OtherPaths == {<<"/">>, <<"/", "f">>}

\* ------------------------------------------------------- handler records

\* what a handler step did; every step starts from the empty record
Log0(handler) ==
    [handler |-> handler, outcome |-> "none", status |-> 0, reply |-> "none",
     to |-> Absent, method |-> "", message |-> Absent, member |-> Absent,
     sender |-> Absent, params |-> Absent, key |-> <<>>, url |-> Absent,
     link |-> <<>>, lines |-> <<>>, info |-> Absent, calls |-> <<>>]

Respond(log, status) == [log EXCEPT !.outcome = "response", !.status = status]
Throw(log) == [log EXCEPT !.outcome = "exception", !.status = 0]
Await(log) == [log EXCEPT !.outcome = "await", !.status = 0]
Called(log, f) == [log EXCEPT !.calls = @ \o <<f>>]

\* a suspended request: the locals it resumes with (of sendUserLinks:
\* list.keys, the position of the loop in it, and the lines of message)
Suspended(handler, key, meta, chatId, userId, keys, next, lines) ==
    [handler |-> handler, key |-> key, meta |-> meta, chatId |-> chatId,
     userId |-> userId, keys |-> keys, next |-> next, lines |-> lines]

\* the outcome of a handler step: the store after it, the keys it put, the
\* request it leaves suspended, and its record
Effect(store, put, spawn, log) ==
    [kv |-> store, issued |-> put, spawn |-> spawn, last |-> log]

\* ---------------------------------------------------------------- handlers

\* sendTelegramMessage(chatId, text): the fetch is not in a try block, so a
\* fetch that rejects is an exception of the handler; a fetch that resolves,
\* whatever the API answered, gives the 200 response
sendTelegramMessage(chatId, text, delivery, log) ==
    LET sent == [Called(log, "sendTelegramMessage") EXCEPT
                    !.to = Some(chatId), !.reply = text]
    IN IF delivery = "rejected" THEN Throw(sent) ELSE Respond(sent, 200)

\* sendUserLinks up to the answer of LINKS_KV.list: with no key the notice is
\* sent at once, else the request is suspended at the first LINKS_KV.get
sendUserLinks(chatId, userId, delivery, log) ==
    LET list == KvList(UserPrefix(NumberToString(userId)))
        log1 == Called(Called(log, "sendUserLinks"), "LINKS_KV.list")
    IN IF Len(list) = 0
       THEN Effect(kv, {}, Absent,
                   sendTelegramMessage(chatId, "no_links", delivery, log1))
       ELSE Effect(kv, {},
                   Some(Suspended("sendUserLinks", <<>>, Absent, chatId, userId,
                                  list, 1, <<>>)),
                   Await(log1))

\* one pass of the loop over list.keys: the LINKS_KV.get of the key at the
\* position of the loop, and the line it adds to message when the value is
\* still in the store.  After the last key the message is sent; before it
\* the request is suspended at the next LINKS_KV.get
sendUserLinksLoop(r, delivery) ==
    LET name == r.keys[r.next]
        value == KvGet(name)
        lines ==
            IF value = Absent THEN r.lines
            ELSE LET meta == JSONparse(value[1])
                     token == KeyToken(name)
                 IN r.lines \o
                    <<[fileName |-> meta.fileName,
                       sizeMB |-> ToFixed2MB(meta.fileSize),
                       link |-> LinkPath(NumberToString(r.userId), TemplateStr(token))]>>
        log1 == [Called(Log0("handleTelegramWebhook"), "LINKS_KV.get")
                    EXCEPT !.method = "POST", !.member = Some(TRUE),
                           !.sender = Some(r.userId), !.key = name,
                           !.lines = lines]
    IN IF r.next < Len(r.keys)
       THEN Effect(kv, {}, Some([r EXCEPT !.next = @ + 1, !.lines = lines]),
                   Await(log1))
       ELSE Effect(kv, {}, Absent, sendTelegramMessage(r.chatId, "links", delivery, log1))

\* FailsMembership on the promise, without the await: a promise is truthy
FailsMembership_NoAwait(member) == FALSE

\* !(await isUserMember(userId))
FailsMembership(member) == ~Truthy(member)

\* handleTelegramWebhook from the command dispatch on: the sender is a member
webhookMember(message, chatId, userId, delivery, n, log) ==
    IF ~FalsyStr(message.text) /\ message.text[1] = CmdStart
    THEN Effect(kv, {}, Absent, sendTelegramMessage(chatId, "start", delivery, log))
    ELSE IF ~FalsyStr(message.text) /\ StartsWith(message.text[1], CmdLinks)
    THEN sendUserLinks(chatId, userId, delivery, log)
    ELSE LET info == extractFileInfo(message)
             log1 == [Called(log, "extractFileInfo") EXCEPT !.info = Some(info)]
         IN IF FalsyName(info.fileId) \/ FalsyName(info.fileName)
            THEN Effect(kv, {}, Absent,
                        sendTelegramMessage(chatId, "invalid_file", delivery, log1))
            ELSE IF ExceedsMaxFileSize(info.fileSize)
            THEN Effect(kv, {}, Absent,
                        sendTelegramMessage(chatId, "too_large", delivery, log1))
            ELSE LET token == UUID(n)
                     key == LinkKey(NumberToString(userId), token)
                     link == LinkPath(NumberToString(userId), token)
                     log2 == [Called(Called(log1, "crypto.randomUUID"), "LINKS_KV.put")
                                 EXCEPT !.key = key, !.link = link]
                 IN Effect(KvPut(key, JSONstringify(info)), {key}, Absent,
                           sendTelegramMessage(chatId, "link", delivery, log2))

\* handleTelegramWebhook(request)
handleTelegramWebhook(method, body, answer, delivery, n) ==
    LET log0 == [Log0("handleTelegramWebhook") EXCEPT !.method = method]
    IN IF method # "POST" THEN Effect(kv, {}, Absent, Respond(log0, 405))
       ELSE IF body = Absent
       THEN Effect(kv, {}, Absent, Throw(Called(log0, "request.json")))
       ELSE IF body[1].message = Absent
               \/ FalsyNum(body[1].message[1].chat)
               \/ FalsyNum(body[1].message[1].from)
       THEN Effect(kv, {}, Absent, Respond(log0, 200))
       ELSE LET message == body[1].message[1]
                chatId == message.chat[1]
                userId == message.from[1]
                member == isUserMember(answer)
                log1 == [Called(log0, "isUserMember") EXCEPT
                            !.message = Some(message), !.sender = Some(userId),
                            !.member = Some(Truthy(member))]
            IN IF FailsMembership(member)
               THEN Effect(kv, {}, Absent,
                           sendTelegramMessage(chatId, "join", delivery, log1))
               ELSE webhookMember(message, chatId, userId, delivery, n, log1)

\* serveFile(userId, token) up to the answer of LINKS_KV.get
serveFile(userId, token) ==
    LET log0 == [Log0("serveFile") EXCEPT !.params = Some(<<userId, token>>)]
    IN IF FalsyStr(userId) \/ FalsyStr(token)
       THEN Effect(kv, {}, Absent, Respond(log0, 400))
       ELSE LET key == LinkKey(userId[1], token[1])
                metaStr == KvGet(key)
                log1 == [Called(log0, "LINKS_KV.get") EXCEPT !.key = key]
            IN IF metaStr = Absent
               THEN Effect(kv, {}, Absent, Respond(log1, 403))
               ELSE Effect(kv, {},
                           Some(Suspended("serveFile", key, Some(JSONparse(metaStr[1])),
                                          0, 0, <<>>, 0, <<>>)),
                           Await(log1))

\* serveFile from getTelegramFileLink to the response
serveFileFinish(r, answer, upstream) ==
    LET url == getTelegramFileLink(r.meta[1].fileId, answer)
        log1 == [Called(Log0("serveFile"), "getTelegramFileLink") EXCEPT
                    !.key = r.key, !.info = r.meta, !.url = url]
    IN IF url = Absent
       THEN Effect(KvDelete(r.key), {}, Absent,
                   Respond(Called(log1, "LINKS_KV.delete"), 502))
       ELSE IF upstream = Absent
       THEN Effect(kv, {}, Absent, Throw(Called(log1, "fetch")))
       ELSE Effect(kv, {}, Absent,
                   Respond([Called(log1, "fetch") EXCEPT !.reply = "stream"],
                           upstream[1]))

\* pathParts[1] of handleRequest
Route(path) == At(Split(path, "/"), 1)

\* ------------------------------------------------------------------ actions

Apply(e) ==
    /\ e.spawn # Absent => BagCardinality(inflight) < MaxInFlight
    /\ kv' = e.kv
    /\ issued' = issued \cup e.issued
    /\ inflight' = IF e.spawn = Absent THEN inflight
                   ELSE inflight (+) SetToBag({e.spawn[1]})
    /\ last' = e.last
    /\ UNCHANGED <<arg, ret>>

Resume(r, e) ==
    /\ kv' = e.kv
    /\ issued' = issued \cup e.issued
    /\ inflight' = IF e.spawn = Absent THEN inflight (-) SetToBag({r})
                   ELSE (inflight (-) SetToBag({r})) (+) SetToBag({e.spawn[1]})
    /\ last' = e.last
    /\ UNCHANGED <<arg, ret>>

\* a request that handleRequest routes to handleTelegramWebhook
WebhookRequest(inputs) ==
    \E in \in inputs :
        /\ Route(in.path) = Some(<<"w", "e", "b", "h", "o", "o", "k">>)
        /\ LET n == Cardinality(issued) + 1
               e == handleTelegramWebhook(in.method, in.body, in.answer, in.delivery, n)
           IN /\ e.issued # {} => n <= MaxTokens
              /\ Apply(e)

\* a request that handleRequest routes to serveFile
FileRequest ==
    \E path \in FilePaths :
        LET pathParts == Split(path, "/")
        IN /\ At(pathParts, 1) = Some(<<"f", "i", "l", "e">>)
           /\ Apply(serveFile(At(pathParts, 2), At(pathParts, 3)))

\* a request to any other path
OtherRequest ==
    \E path \in OtherPaths :
        /\ Route(path) \notin {Some(<<"w", "e", "b", "h", "o", "o", "k">>),
                               Some(<<"f", "i", "l", "e">>)}
        /\ Apply(Effect(kv, {}, Absent, Respond(Log0("handleRequest"), 404)))

\* a suspended serveFile goes on
FileResume ==
    \E r \in BagToSet(inflight), o \in FileOutcomes :
        /\ r.handler = "serveFile"
        /\ Resume(r, serveFileFinish(r, o.answer, o.upstream))

\* a suspended sendUserLinks goes on
LinksResume ==
    \E r \in BagToSet(inflight), delivery \in Deliveries :
        /\ r.handler = "sendUserLinks"
        /\ Resume(r, sendUserLinksLoop(r, delivery))

Init ==
    /\ kv = <<>>
    /\ issued = {}
    /\ inflight = EmptyBag
    /\ last = Log0("none")
    /\ arg = Absent
    /\ ret = Absent

StoreRequest == WebhookRequest(StoreInputs)
AnyWebhookRequest == WebhookRequest(WebhookInputs)

\* the store under concurrent requests
Next == StoreRequest \/ FileRequest \/ FileResume \/ LinksResume

Spec == Init /\ [][Next]_vars

\* ---------------------------------------------------- the pure functions

\* the messages extractFileInfo is run on: every combination of a document
\* (named or not), a video (named or not), an audio and a photo array (empty,
\* or with two sizes), each attachment with its own file_id and file_size
ExtractMessages ==
    {[document |-> d, video |-> v, audio |-> a, photo |-> p] :
        d \in {Absent,
               Some(Attachment("abc", Some("report.pdf"), Some(1048576))),
               Some(Attachment("abc", Absent, Some(1048576)))},
        v \in {Absent,
               Some(Attachment("vid", Absent, Some(2000))),
               Some(Attachment("vid", Some("clip.mov"), Some(2000)))},
        a \in {Absent, Some(Attachment("aud", Absent, Some(3000)))},
        p \in {Absent, Some(<<>>),
               Some(<<Attachment("ph1", Absent, Some(100)),
                      Attachment("ph2", Absent, Some(400))>>)}}

InitExtract ==
    /\ kv = <<>>
    /\ issued = {}
    /\ inflight = EmptyBag
    /\ last = Log0("none")
    /\ arg \in {Some(m) : m \in ExtractMessages}
    /\ ret = Absent

Extract ==
    /\ ret = Absent
    /\ ret' = Some(extractFileInfo(arg[1]))
    /\ UNCHANGED <<kv, issued, inflight, last, arg>>

SpecExtract == InitExtract /\ [][Extract]_vars

InitMember ==
    /\ kv = <<>>
    /\ issued = {}
    /\ inflight = EmptyBag
    /\ last = Log0("none")
    /\ arg \in {Some([userId |-> u, answer |-> a]) : u \in UserIds, a \in MemberAnswers}
    /\ ret = Absent

CheckMember ==
    /\ ret = Absent
    /\ ret' = Some(isUserMember(arg[1].answer))
    /\ UNCHANGED <<kv, issued, inflight, last, arg>>

SpecMember == InitMember /\ [][CheckMember]_vars

\* the webhook under every kind of request
NextWebhook == AnyWebhookRequest \/ OtherRequest \/ LinksResume

SpecWebhook == Init /\ [][NextWebhook]_vars

\* ---------------------------------------------------------------- claims

\* the records of user u: the keys user:<u>:<token>
RecordsOf(u) ==
    {k \in DOMAIN kv :
        LET parts == Split(k, ":")
        IN /\ Len(parts) = 3
           /\ parts[1] = <<"u", "s", "e", "r">>
           /\ parts[2] = NumberToString(u)}

\* the key serveFile looks up for a request to this path
KeyOfPath(path) ==
    LET pathParts == Split(path, "/")
    IN LinkKey(TemplateStr(At(pathParts, 2)), TemplateStr(At(pathParts, 3)))

\* the step taken is a step of the webhook handler that ran the membership check
WebhookChecked == last'.handler = "handleTelegramWebhook" /\ last'.member # Absent

\* the step taken is serveFile up to LINKS_KV.get
ServeStarted == last'.handler = "serveFile" /\ last'.params # Absent

\* the step taken is serveFile from getTelegramFileLink on
ServeFinished == last'.handler = "serveFile" /\ last'.params = Absent

\* the step taken changes no record: same keys, same values
RecordsKept(keys) == \A k \in keys : k \in DOMAIN kv' /\ kv'[k] = kv[k]

\* C1: a POST to /webhook whose sender fails the membership check, whatever
\* the message carries, only calls isUserMember and sends the join reply to
\* the chat; the store is unchanged, no record is created and no listing is
\* started.
C1_NonMemberOnlyGetsJoinReply ==
    [][(WebhookChecked /\ last'.member = Some(FALSE))
        => /\ last'.reply = "join"
           /\ last'.to = last'.message[1].chat
           /\ last'.calls = <<"isUserMember", "sendTelegramMessage">>
           /\ last'.info = Absent
           /\ kv' = kv /\ issued' = issued /\ inflight' = inflight]_vars

\* a non-member sent a document that a member would get a link for, while
\* the store holds a record, and got the join reply
C1_Witness ==
    /\ last.handler = "handleTelegramWebhook"
    /\ last.member = Some(FALSE)
    /\ last.reply = "join"
    /\ last.message[1].document # Absent
    /\ last.message[1].document[1].file_size = Some(MAX_FILE_SIZE)
    /\ DOMAIN kv # {}

\* C4 as stated: every record of the Link Store has a fileSize, and it is at
\* most 20971520.
C4_EveryRecordHasSizeAtMostCeiling ==
    \A k \in DOMAIN kv :
        "fileSize" \in DOMAIN kv[k] /\ kv[k].fileSize <= 20 * 1024 * 1024

\* C4, amended: for a member's message with an extractable file, a record is
\* created unless the file size is greater than 20971520: a size of exactly
\* 20971520 and an absent size are accepted (the record of the latter has no
\* fileSize), a size of 20971521 gets the size reply and no record; every
\* record that has a fileSize has one of at most 20971520.
C4_SizeCeiling ==
    [][/\ (/\ WebhookChecked
           /\ last'.member = Some(TRUE)
           /\ last'.info # Absent
           /\ last'.info[1].fileId # Absent
           /\ last'.info[1].fileName # Absent)
          => IF /\ last'.info[1].fileSize # Absent
                /\ last'.info[1].fileSize[1] > 20 * 1024 * 1024
             THEN last'.reply = "too_large" /\ kv' = kv
             ELSE /\ last'.reply = "link"
                  /\ last'.key \notin DOMAIN kv
                  /\ last'.key \in DOMAIN kv'
                  /\ JSONparse(kv'[last'.key]).fileSize = last'.info[1].fileSize
       /\ \A k \in DOMAIN kv' :
            "fileSize" \in DOMAIN kv'[k] => kv'[k].fileSize <= 20 * 1024 * 1024]_vars

\* the store holds a record of exactly 20971520 bytes and one with no
\* fileSize, and a file of 20971521 bytes has just been rejected
C4_Witness ==
    /\ \E k \in DOMAIN kv :
         "fileSize" \in DOMAIN kv[k] /\ kv[k].fileSize = 20 * 1024 * 1024
    /\ \E k \in DOMAIN kv : "fileSize" \notin DOMAIN kv[k]
    /\ last.reply = "too_large"
    /\ last.info[1].fileSize = Some(20 * 1024 * 1024 + 1)

\* C5: an accepted file message of member U adds exactly one record, under a
\* key user:<U>:<token> that was never used, with the fileId, fileName and
\* fileSize of the extracted file; every record there was is unchanged; the
\* link of the reply is /file/<U>/<token> and names that record.  So the same
\* message sent twice leaves two records with the same metadata.
C5_IssuanceAddsOneRecord ==
    [][(WebhookChecked /\ last'.reply = "link")
        => /\ last'.key \notin issued
           /\ DOMAIN kv' = DOMAIN kv \cup {last'.key}
           /\ RecordsKept(DOMAIN kv)
           /\ Len(Split(last'.key, ":")) = 3
           /\ Split(last'.key, ":")[1] = <<"u", "s", "e", "r">>
           /\ Split(last'.key, ":")[2] = NumberToString(last'.sender[1])
           /\ \A k \in issued : KeyToken(k) # KeyToken(last'.key)
           /\ last'.info = Some(extractFileInfo(last'.message[1]))
           /\ JSONparse(kv'[last'.key]) = last'.info[1]
           /\ Route(last'.link) = Some(<<"f", "i", "l", "e">>)
           /\ Len(Split(last'.link, "/")) = 4
           /\ Split(last'.link, "/")[3] = NumberToString(last'.sender[1])
           /\ Some(Split(last'.link, "/")[4]) = KeyToken(last'.key)
           /\ KeyOfPath(last'.link) = last'.key]_vars

\* the same document was sent twice by user 1: two records of user 1 with
\* two tokens and the same metadata, the second one just issued
C5_Witness ==
    /\ last.reply = "link"
    /\ last.sender = Some(1)
    /\ \E k \in RecordsOf(1) :
         /\ k # last.key
         /\ last.key \in RecordsOf(1)
         /\ KeyToken(k) # KeyToken(last.key)
         /\ kv[k] = kv[last.key]
         /\ JSONparse(kv[k]) = extractFileInfo(last.message[1])

\* C7 as stated, for the POSTs whose body is JSON: the handler ends with the
\* 200 response, also when the reply is not delivered.
C7_EveryPostReturns200 ==
    (/\ last.handler = "handleTelegramWebhook"
     /\ last.method = "POST"
     /\ last.outcome # "await"
     /\ "request.json" \notin {last.calls[i] : i \in DOMAIN last.calls})
        => last.outcome = "response" /\ last.status = 200

\* C8: isUserMember gives true only when the API answered ok with a status
\* among member, creator and administrator; for every other answer (another
\* status, ok false or missing, no result, no status, an exception) it gives
\* false or undefined, and no exception leaves it.
C8_MembershipFailsClosed ==
    ret # Absent
        => LET a == arg[1].answer
           IN /\ ret[1] \in {Some(TRUE), Some(FALSE), Absent}
              /\ ret[1] = Some(TRUE)
                    <=> /\ ~a.throws
                        /\ a.ok = Some(TRUE)
                        /\ a.result # Absent
                        /\ a.result[1].status \in
                              {Some("member"), Some("creator"), Some("administrator")}

\* the answer was ok with no result: the TypeError is caught and the result is false
C8_Witness ==
    /\ ret = Some(Some(FALSE))
    /\ arg[1].answer.ok = Some(TRUE)
    /\ arg[1].answer.result = Absent

\* the attachment extractFileInfo chooses, by the priority of the claim
ChosenType(m) ==
    IF m.document # Absent THEN "document"
    ELSE IF m.video # Absent THEN "video"
    ELSE IF m.audio # Absent THEN "audio"
    ELSE IF m.photo # Absent /\ m.photo[1] # <<>> THEN "photo"
    ELSE "none"

\* C10 as stated, on the file name: a default name is the default of the
\* type of the chosen attachment: video.mp4 only for a video, audio.mp3 only
\* for an audio, photo.jpg only for a photo.
C10_DefaultNameIsOfChosenType ==
    (ret # Absent /\ ret[1].fileName # Absent)
        => /\ ret[1].fileName = Some("video.mp4") => ChosenType(arg[1]) = "video"
           /\ ret[1].fileName = Some("audio.mp3") => ChosenType(arg[1]) = "audio"
           /\ ret[1].fileName = Some("photo.jpg") => ChosenType(arg[1]) = "photo"

\* the calls a step made
CallsOf(log) == {log.calls[i] : i \in DOMAIN log.calls}

\* C2: when serveFile has found the record and the File Resolver gives null,
\* the handler deletes exactly that record and answers 502; a key that was
\* issued and is gone never comes back, and every later serveFile for it
\* answers 403 after one LINKS_KV.get, as it does for a key never issued.
C2_FailedResolutionDeletesRecord ==
    [][/\ (ServeFinished /\ last'.url = Absent)
          => /\ last'.outcome = "response" /\ last'.status = 502
             /\ DOMAIN kv' = DOMAIN kv \ {last'.key}
             /\ RecordsKept(DOMAIN kv \ {last'.key})
       /\ \A k \in issued \ DOMAIN kv : k \notin DOMAIN kv'
       /\ (ServeStarted /\ last'.key # <<>> /\ last'.key \notin DOMAIN kv)
          => /\ last'.outcome = "response" /\ last'.status = 403
             /\ last'.calls = <<"LINKS_KV.get">>
             /\ kv' = kv /\ inflight' = inflight]_vars

\* a serveFile for a key that was issued and then deleted has answered 403
C2_Witness ==
    /\ last.handler = "serveFile"
    /\ last.status = 403
    /\ last.key \in issued
    /\ last.key \notin DOMAIN kv

\* C3: serveFile answers 400 when userId or token is missing or empty, and
\* 403 when the key user:<userId>:<token> is not in the store (never issued,
\* or deleted); in both cases the File Resolver is not called and the store
\* is unchanged.
C3_ServeRejectsWithoutResolving ==
    [][ServeStarted
        => LET userId == last'.params[1][1]
               token == last'.params[1][2]
           IN IF userId \in {Absent, Some(<<>>)} \/ token \in {Absent, Some(<<>>)}
              THEN /\ last'.outcome = "response" /\ last'.status = 400
                   /\ last'.calls = <<>>
                   /\ kv' = kv /\ issued' = issued /\ inflight' = inflight
              ELSE /\ last'.key = <<"u", "s", "e", "r", ":">> \o userId[1]
                                      \o <<":">> \o token[1]
                   /\ last'.key \notin DOMAIN kv
                        => /\ last'.outcome = "response" /\ last'.status = 403
                           /\ "getTelegramFileLink" \notin CallsOf(last')
                           /\ kv' = kv /\ issued' = issued /\ inflight' = inflight
                   /\ last'.key \in DOMAIN kv => last'.status \notin {400, 403}]_vars

\* a serveFile for a key that was never issued has answered 403 while the
\* store holds records
C3_Witness ==
    /\ last.handler = "serveFile"
    /\ last.status = 403
    /\ last.key \notin issued
    /\ DOMAIN kv # {}

\* the keys of a sequence of keys
KeysOf(keys) == {keys[i] : i \in DOMAIN keys}

\* the keys serveFile looks up for the links of the lines
LineKeys(lines) == {KeyOfPath(lines[i].link) : i \in DOMAIN lines}

\* C6: a /links of member U sends the no-links notice when U has no record;
\* otherwise the keys it lists are exactly U's records, each pass of its loop
\* adds one line for the key it reads when that record is still in the
\* store, with the file name of the record and a link /file/<U>/<token> for
\* which serveFile looks up that key, and the reply carries those lines.  So
\* when U's records are still the listed ones at the reply (no write to them
\* came between) the reply has exactly one line per record of U and none for
\* another user's.
C6_ListingMatchesRecords ==
    [][/\ (WebhookChecked /\ "LINKS_KV.list" \in CallsOf(last'))
          => /\ kv' = kv
             /\ LET records == RecordsOf(last'.sender[1])
                IN IF records = {}
                   THEN last'.reply = "no_links" /\ inflight' = inflight
                   ELSE /\ last'.outcome = "await"
                        /\ \E r \in BagToSet(inflight') :
                             /\ r.handler = "sendUserLinks"
                             /\ r.userId = last'.sender[1]
                             /\ r.next = 1 /\ r.lines = <<>>
                             /\ KeysOf(r.keys) = records
                             /\ Len(r.keys) = Cardinality(records)
                             /\ inflight' = inflight (+) SetToBag({r})
       /\ (WebhookChecked /\ "LINKS_KV.get" \in CallsOf(last'))
          => /\ kv' = kv
             /\ \E r \in BagToSet(inflight) :
                  LET k == r.keys[r.next]
                      lines == last'.lines
                      records == RecordsOf(r.userId)
                      served == LineKeys(lines)
                  IN /\ r.handler = "sendUserLinks"
                     /\ r.userId = last'.sender[1]
                     /\ k = last'.key
                     /\ IF r.next < Len(r.keys)
                        THEN /\ last'.outcome = "await"
                             /\ inflight' = (inflight (-) SetToBag({r}))
                                    (+) SetToBag({[r EXCEPT !.next = @ + 1,
                                                            !.lines = lines]})
                        ELSE /\ last'.reply = "links"
                             /\ inflight' = inflight (-) SetToBag({r})
                     /\ IF k \in DOMAIN kv
                        THEN /\ Len(lines) = Len(r.lines) + 1
                             /\ SubSeq(lines, 1, Len(r.lines)) = r.lines
                             /\ Route(lines[Len(lines)].link) = Some(<<"f", "i", "l", "e">>)
                             /\ KeyOfPath(lines[Len(lines)].link) = k
                             /\ lines[Len(lines)].fileName = JSONparse(kv[k]).fileName
                        ELSE lines = r.lines
                     /\ r.next = Len(r.keys)
                          => /\ Len(lines) = Cardinality(served)
                             /\ served \subseteq KeysOf(r.keys)
                             /\ KeysOf(r.keys) \cap DOMAIN kv \subseteq served
                             /\ KeysOf(r.keys) = records
                                  => /\ Len(lines) = Cardinality(records)
                                     /\ served = records
                                     /\ \A i \in DOMAIN lines :
                                          lines[i].fileName =
                                             JSONparse(kv[KeyOfPath(lines[i].link)]).fileName]_vars

\* user 1 has one record and user 12 has one, and the listing of user 1 has
\* one line, whose link is that of the record of user 1
C6_Witness ==
    /\ last.reply = "links"
    /\ last.sender = Some(1)
    /\ Len(last.lines) = 1
    /\ RecordsOf(12) # {}
    /\ RecordsOf(1) = {KeyOfPath(last.lines[1].link)}

\* C9 as stated, on how a serve ends: every serveFile for a user id and a
\* token ends in a proxied stream, 403 or 502.
C9_ServeEndsInStreamOr403Or502 ==
    (last.handler = "serveFile" /\ last.outcome # "await" /\ last.key # <<>>)
        => /\ last.outcome = "response"
           /\ last.reply = "stream" \/ last.status \in {403, 502}

\* C9, amended: every serveFile for a user id and a token ends in a proxied
\* stream, 403 or 502, or, when the fetch of the resolved url rejects, in an
\* exception that leaves the store unchanged.  The only change a serve makes
\* to the store is the deletion of its own key after a failed resolution,
\* and a second deletion of a key that is gone changes nothing; in every
\* step, of any request, each record stays as it is unless it is the one
\* record such a serve deletes.
C9_OnlyFailedServeDeletesItsKey ==
    [][/\ (ServeStarted /\ last'.key # <<>>)
          => /\ kv' = kv
             /\ \/ last'.outcome = "await"
                \/ last'.outcome = "response" /\ last'.status = 403
       /\ ServeFinished
          => \/ /\ last'.outcome = "response" /\ last'.reply = "stream"
                /\ last'.url # Absent
                /\ kv' = kv
             \/ /\ last'.outcome = "response" /\ last'.status = 502
                /\ last'.url = Absent
                /\ DOMAIN kv' = DOMAIN kv \ {last'.key}
                /\ RecordsKept(DOMAIN kv \ {last'.key})
                /\ last'.key \notin DOMAIN kv => kv' = kv
             \/ /\ last'.outcome = "exception"
                /\ last'.url # Absent
                /\ last'.calls = <<"getTelegramFileLink", "fetch">>
                /\ kv' = kv
       /\ \A k \in DOMAIN kv :
            \/ k \in DOMAIN kv' /\ kv'[k] = kv[k]
            \/ ServeFinished /\ last'.status = 502 /\ last'.key = k]_vars

\* two serves of one key were suspended together: the first has ended in 502
\* and deleted the record, the second is still to resume
C9_Witness ==
    /\ last.handler = "serveFile"
    /\ last.status = 502
    /\ last.key \notin DOMAIN kv
    /\ DOMAIN kv # {}
    /\ \E r \in BagToSet(inflight) : r.handler = "serveFile" /\ r.key = last.key

====
